---- MODULE Spec2Model ----
(***************************************************************************)
(* Model of src-tauri/src/lib.rs: the `greet` command (an async function   *)
(* that offloads a format! call to the blocking pool and awaits it) and    *)
(* `run`, the entry point that installs the tracing subscriber, registers  *)
(* three plugins and one command handler and runs the application.         *)
(*                                                                         *)
(* Strings are sequences of one-character strings.                         *)
(***************************************************************************)
EXTENDS Naturals, Sequences, FiniteSets

\* ------------------------------------------------------------------ bounds
\* Number of greet invocations the front-end issues in one behaviour.
NumInv == 2
\* Number of second-instance launches delivered to the first instance.
MaxSecond == 1

Inv == 1..NumInv

\* The name arguments the front-end passes: empty, one character, and a
\* name made of characters that also occur in the template.
Names == { <<>>, <<"a">>, <<"!", "}">> }

\* ------------------------------------------------------------ greet: data
\* The pieces of the format string of lib.rs:12; "{}" is the placeholder.
Hole == "{}"
GreetTemplate ==
    << "H", "e", "l", "l", "o", ",", " ", Hole, "!", " ", "Y", "o", "u", "'",
       "v", "e", " ", "b", "e", "e", "n", " ", "g", "r", "e", "e", "t", "e",
       "d", " ", "f", "r", "o", "m", " ", "R", "u", "s", "t", "!" >>

\* The fallback of lib.rs:15.
Fallback == << "H", "e", "l", "l", "o", "!" >>

\* name.to_string(): an owned copy of the borrowed argument.
to_string(s) == [k \in 1..Len(s) |-> s[k]]

\* format!(template, arg): literal pieces are copied, the placeholder is
\* replaced by the Display of the argument (for a String: its characters).
RECURSIVE FormatPieces(_, _)
FormatPieces(tmpl, arg) ==
    IF tmpl = <<>> THEN <<>>
    ELSE (IF Head(tmpl) = Hole THEN arg ELSE <<Head(tmpl)>>)
         \o FormatPieces(Tail(tmpl), arg)

\* A format! that drops the argument.
FormatClosureNoArg(owned) == FormatPieces(GreetTemplate, <<>>)

\* The closure moved into spawn_blocking (lib.rs:11-13).
FormatClosure(owned) == FormatPieces(GreetTemplate, owned)

\* An await that unwraps the join result: a failed task panics the caller.
AwaitJoinUnwrap(task, out) ==
    IF task = "done" THEN [pc |-> "returned", res |-> out]
    ELSE [pc |-> "panicked", res |-> <<>>]

\* .await.unwrap_or_else(|_| "Hello!".to_string()) (lib.rs:14-15): the
\* task's output when it completed, the fallback when the join failed.
AwaitJoin(task, out) ==
    IF task = "done" THEN [pc |-> "returned", res |-> out]
    ELSE [pc |-> "returned", res |-> to_string(Fallback)]

\* -------------------------------------------------------------- run: data
\* RUST_LOG as the process finds it: absent, not valid unicode, or a
\* string that is a comma-separated list of directives.
EnvValues ==
    { [kind |-> "unset", text |-> <<>>],
      [kind |-> "not_unicode", text |-> <<>>],
      [kind |-> "string", text |-> <<"debug">>],
      [kind |-> "string", text |-> <<"info", "tauri=bogus">>] }

\* Directives EnvFilter accepts (the ones that occur here).
ValidDirectives == {"debug", "info", "tauri=warn", "wry=warn"}

\* The default directives of lib.rs:25.
DefaultDirectives == <<"info", "tauri=warn", "wry=warn">>

NoFilter == [from |-> "none", directives |-> <<>>]

\* EnvFilter::try_from_default_env(): Err when the variable cannot be read
\* or when a directive does not parse.
try_from_default_env(e) ==
    IF e.kind # "string" THEN [ok |-> FALSE, directives |-> <<>>]
    ELSE IF \E k \in 1..Len(e.text) : e.text[k] \notin ValidDirectives
         THEN [ok |-> FALSE, directives |-> <<>>]
         ELSE [ok |-> TRUE, directives |-> e.text]

\* A filter choice that unwraps the environment's result.
FilterLayerUnwrap(e) ==
    LET r == try_from_default_env(e)
    IN  IF r.ok THEN [from |-> "env", directives |-> r.directives]
        ELSE [from |-> "panic", directives |-> <<>>]

\* lib.rs:24-25: the environment's filter, or the default on any error.
FilterLayer(e) ==
    LET r == try_from_default_env(e)
    IN  IF r.ok THEN [from |-> "env", directives |-> r.directives]
        ELSE [from |-> "default", directives |-> DefaultDirectives]

StartMessage == "Starting Tauri application"

\* Window labels the application's context may define.
Windows == {"main", "compact"}
WindowConfigs == SUBSET Windows

Args == { <<>>, <<"--compact">> }
Dirs == { "/", "/home" }

\* An expect that swallows the error.
ExpectIgnore(result) == "returned"

\* .expect("error while running tauri application") (lib.rs:43).
Expect(result) == IF result = "Err" THEN "panicked" ELSE "returned"

\* ------------------------------------------------------------------ state
VARIABLES
    env,            \* RUST_LOG
    runPc,          \* where run() is
    filter,         \* filter_layer
    subscriberInits,\* global subscribers installed
    log,            \* events emitted by run()
    plugins,        \* plugins registered on the builder, in order
    handlers,       \* commands of the invoke handler
    runResult,      \* what Builder::run returned
    windows,        \* webview windows of the running application
    secondCount,    \* second-instance launches delivered
    focusCount,     \* set_focus requests per window
    focusErrs,      \* set_focus requests that returned an error
    inv,            \* greet invocations
    loop            \* the invocation the async executor is polling, or 0

vars == << env, runPc, filter, subscriberInits, log, plugins, handlers,
           runResult, windows, secondCount, focusCount, focusErrs, inv, loop >>

runVars == << env, runPc, filter, subscriberInits, log, plugins, handlers,
              runResult, windows >>
secondVars == << secondCount, focusCount, focusErrs >>
greetVars == << inv, loop >>

IdleInv ==
    [pc |-> "idle", name |-> <<>>, owned |-> <<>>, task |-> "none",
     out |-> <<>>, fmtThread |-> "none", res |-> <<>>]

Init ==
    /\ env \in EnvValues
    /\ runPc = "filter"
    /\ filter = NoFilter
    /\ subscriberInits = 0
    /\ log = <<>>
    /\ plugins = <<>>
    /\ handlers = {}
    /\ runResult = "none"
    /\ windows = {}
    /\ secondCount = 0
    /\ focusCount = [w \in Windows |-> 0]
    /\ focusErrs = 0
    /\ inv = [i \in Inv |-> IdleInv]
    /\ loop = 0

\* -------------------------------------------------------------------- run
\* lib.rs:24-25
ChooseFilter ==
    /\ runPc = "filter"
    /\ filter' = FilterLayer(env)
    /\ runPc' = "subscriber"
    /\ UNCHANGED << env, subscriberInits, log, plugins, handlers, runResult,
                    windows, secondVars, greetVars >>

\* lib.rs:26-29: tracing_subscriber::fmt().with_env_filter(..).compact().init()
InitSubscriber ==
    /\ runPc = "subscriber"
    /\ subscriberInits' = subscriberInits + 1
    /\ runPc' = "info"
    /\ UNCHANGED << env, filter, log, plugins, handlers, runResult, windows,
                    secondVars, greetVars >>

\* lib.rs:31
LogStart ==
    /\ runPc = "info"
    /\ log' = Append(log, StartMessage)
    /\ runPc' = "opener"
    /\ UNCHANGED << env, filter, subscriberInits, plugins, handlers,
                    runResult, windows, secondVars, greetVars >>

\* lib.rs:33-34
PluginOpener ==
    /\ runPc = "opener"
    /\ plugins' = Append(plugins, "opener")
    /\ runPc' = "sql"
    /\ UNCHANGED << env, filter, subscriberInits, log, handlers, runResult,
                    windows, secondVars, greetVars >>

\* lib.rs:35
PluginSql ==
    /\ runPc = "sql"
    /\ plugins' = Append(plugins, "sql")
    /\ runPc' = "single_instance"
    /\ UNCHANGED << env, filter, subscriberInits, log, handlers, runResult,
                    windows, secondVars, greetVars >>

\* lib.rs:36-40: the plugin is registered with the callback
PluginSingleInstance ==
    /\ runPc = "single_instance"
    /\ plugins' = Append(plugins, "single-instance")
    /\ runPc' = "invoke_handler"
    /\ UNCHANGED << env, filter, subscriberInits, log, handlers, runResult,
                    windows, secondVars, greetVars >>

\* A handler generated for no command.
InvokeHandlerEmpty ==
    /\ runPc = "invoke_handler"
    /\ handlers' = {}
    /\ runPc' = "run"
    /\ UNCHANGED << env, filter, subscriberInits, log, plugins, runResult,
                    windows, secondVars, greetVars >>

\* lib.rs:41: generate_handler![greet]
InvokeHandler ==
    /\ runPc = "invoke_handler"
    /\ handlers' = {"greet"}
    /\ runPc' = "run"
    /\ UNCHANGED << env, filter, subscriberInits, log, plugins, runResult,
                    windows, secondVars, greetVars >>

\* lib.rs:42: .run(context) builds the application; the build fails, or
\* the windows of the context are created and the event loop starts.
RuntimeBuild ==
    /\ runPc = "run"
    /\ \/ /\ runResult' = "Err"
          /\ runPc' = "expect"
          /\ UNCHANGED windows
       \/ /\ windows' \in WindowConfigs
          /\ runPc' = "running"
          /\ UNCHANGED runResult
    /\ UNCHANGED << env, filter, subscriberInits, log, plugins, handlers,
                    secondVars, greetVars >>

\* lib.rs:42: the event loop ends and .run(context) returns Ok(())
RuntimeExit ==
    /\ runPc = "running"
    /\ runResult' = "Ok"
    /\ runPc' = "expect"
    /\ UNCHANGED << env, filter, subscriberInits, log, plugins, handlers,
                    windows, secondVars, greetVars >>

\* lib.rs:43
ExpectRun ==
    /\ runPc = "expect"
    /\ runPc' = Expect(runResult)
    /\ UNCHANGED << env, filter, subscriberInits, log, plugins, handlers,
                    runResult, windows, secondVars, greetVars >>

\* A callback that focuses every window and unwraps the result.
SecondInstanceUnwrapAll(argv, cwd) ==
    /\ runPc = "running"
    /\ "single-instance" \in { plugins[k] : k \in 1..Len(plugins) }
    /\ secondCount < MaxSecond
    /\ secondCount' = secondCount + 1
    /\ focusCount' = [w \in Windows |->
                        IF w \in windows THEN focusCount[w] + 1
                        ELSE focusCount[w]]
    /\ \E r \in {"Ok", "Err"} :
          /\ focusErrs' = IF r = "Err" /\ windows # {} THEN focusErrs + 1
                          ELSE focusErrs
          /\ runPc' = IF r = "Err" /\ windows # {} THEN "panicked" ELSE runPc
    /\ UNCHANGED << env, filter, subscriberInits, log, plugins, handlers,
                    runResult, windows, greetVars >>

\* A callback that opens the window named by the launch arguments.
SecondInstanceOpen(argv, cwd) ==
    /\ runPc = "running"
    /\ "single-instance" \in { plugins[k] : k \in 1..Len(plugins) }
    /\ secondCount < MaxSecond
    /\ secondCount' = secondCount + 1
    /\ windows' = IF argv = <<>> THEN windows ELSE windows \cup {"compact"}
    /\ UNCHANGED << env, runPc, filter, subscriberInits, log, plugins,
                    handlers, runResult, focusCount, focusErrs, greetVars >>

\* lib.rs:36-40: the single-instance plugin delivers a second launch and
\* runs the callback: set_focus on the window labelled "main" when there
\* is one; the Result of set_focus is dropped (let _ =).
SecondInstance(argv, cwd) ==
    /\ runPc = "running"
    /\ "single-instance" \in { plugins[k] : k \in 1..Len(plugins) }
    /\ secondCount < MaxSecond
    /\ secondCount' = secondCount + 1
    /\ IF "main" \in windows
       THEN /\ focusCount' = [focusCount EXCEPT !["main"] = @ + 1]
            /\ \E r \in {"Ok", "Err"} :
                  focusErrs' = IF r = "Err" THEN focusErrs + 1 ELSE focusErrs
       ELSE UNCHANGED << focusCount, focusErrs >>
    /\ UNCHANGED << env, runPc, filter, subscriberInits, log, plugins,
                    handlers, runResult, windows, greetVars >>

\* ------------------------------------------------------------------ greet
Running == runPc = "running"

\* The runtime dispatches a front-end invoke of "greet" to the registered
\* handler and the async executor starts polling the future (lib.rs:8).
\* Invocations are numbered in the order they are dispatched.
Invoke(i, name) ==
    /\ Running
    /\ "greet" \in handlers
    /\ inv[i].pc = "idle"
    /\ i > 1 => inv[i - 1].pc # "idle"
    /\ loop = 0
    /\ inv' = [inv EXCEPT ![i].pc = "polling", ![i].name = name]
    /\ loop' = i
    /\ UNCHANGED << runVars, secondVars >>

\* A greet that formats on the executor thread instead of offloading.
GreetSpawnInline(i) ==
    /\ Running
    /\ inv[i].pc = "polling"
    /\ loop = i
    /\ inv' = [inv EXCEPT ![i].owned = to_string(inv[i].name),
                          ![i].out = FormatClosure(to_string(inv[i].name)),
                          ![i].fmtThread = "loop",
                          ![i].task = "done",
                          ![i].pc = "awaiting"]
    /\ loop' = 0
    /\ UNCHANGED << runVars, secondVars >>

\* lib.rs:10-14: copy the name, hand the closure to the blocking pool and
\* await the join handle: the future is pending and the executor is free.
GreetSpawn(i) ==
    /\ Running
    /\ inv[i].pc = "polling"
    /\ loop = i
    /\ inv' = [inv EXCEPT ![i].owned = to_string(inv[i].name),
                          ![i].task = "queued",
                          ![i].pc = "awaiting"]
    /\ loop' = 0
    /\ UNCHANGED << runVars, secondVars >>

\* The owned name of the invocation that spawned last.
LastOwned ==
    LET spawned == { j \in Inv : inv[j].task # "none" }
        last == CHOOSE j \in spawned : \A k \in spawned : k <= j
    IN  inv[last].owned

\* A worker that formats a name kept in a buffer all invocations share.
WorkerRunShared(i) ==
    /\ Running
    /\ inv[i].task = "queued"
    /\ inv' = [inv EXCEPT ![i].out = FormatClosure(LastOwned),
                          ![i].fmtThread = "worker",
                          ![i].task = "done"]
    /\ UNCHANGED << runVars, secondVars, loop >>

\* lib.rs:11-13: a blocking-pool thread runs the closure to completion.
WorkerRun(i) ==
    /\ Running
    /\ inv[i].task = "queued"
    /\ inv' = [inv EXCEPT ![i].out = FormatClosure(inv[i].owned),
                          ![i].fmtThread = "worker",
                          ![i].task = "done"]
    /\ UNCHANGED << runVars, secondVars, loop >>

\* lib.rs:14: the pool reports the task as failed (the join handle will
\* yield an error); the closure produced nothing.
WorkerFail(i) ==
    /\ Running
    /\ inv[i].task = "queued"
    /\ inv' = [inv EXCEPT ![i].task = "failed"]
    /\ UNCHANGED << runVars, secondVars, loop >>

\* An executor that polls a pending future again before its task ended.
GreetReturnEarly(i) ==
    /\ Running
    /\ inv[i].pc = "awaiting"
    /\ loop = 0
    /\ LET r == AwaitJoin(inv[i].task, inv[i].out)
       IN  inv' = [inv EXCEPT ![i].pc = r.pc, ![i].res = r.res]
    /\ UNCHANGED << runVars, secondVars, loop >>

\* lib.rs:14-17: the join handle is ready, the future is woken, the free
\* executor polls it again, the join result is turned into res and
\* returned to the caller; the executor is free again.
GreetReturn(i) ==
    /\ Running
    /\ inv[i].pc = "awaiting"
    /\ inv[i].task \in {"done", "failed"}
    /\ loop = 0
    /\ LET r == AwaitJoin(inv[i].task, inv[i].out)
       IN  inv' = [inv EXCEPT ![i].pc = r.pc, ![i].res = r.res]
    /\ UNCHANGED << runVars, secondVars, loop >>

\* ------------------------------------------------------------ specification
Next ==
    \/ ChooseFilter
    \/ InitSubscriber
    \/ LogStart
    \/ PluginOpener
    \/ PluginSql
    \/ PluginSingleInstance
    \/ InvokeHandler
    \/ RuntimeBuild
    \/ RuntimeExit
    \/ ExpectRun
    \/ \E argv \in Args, cwd \in Dirs : SecondInstance(argv, cwd)
    \/ \E i \in Inv, name \in Names : Invoke(i, name)
    \/ \E i \in Inv : GreetSpawn(i)
    \/ \E i \in Inv : WorkerRun(i)
    \/ \E i \in Inv : WorkerFail(i)
    \/ \E i \in Inv : GreetReturn(i)

Spec == Init /\ [][Next]_vars

\* The executor polls every future it has, and the blocking pool ends every
\* task it was given, one way or the other.
Fairness ==
    \A i \in Inv :
        /\ WF_vars(GreetSpawn(i))
        /\ WF_vars(WorkerRun(i) \/ WorkerFail(i))
        /\ WF_vars(GreetReturn(i))

\* The same program with RUST_LOG unset and no second launch (a second
\* launch leaves the invocations and the executor alone, see
\* ThmSecondLaunchOnlyFocus), under fair scheduling.
InitFair == Init /\ env.kind = "unset"

NextGreet ==
    \/ ChooseFilter
    \/ InitSubscriber
    \/ LogStart
    \/ PluginOpener
    \/ PluginSql
    \/ PluginSingleInstance
    \/ InvokeHandler
    \/ RuntimeBuild
    \/ RuntimeExit
    \/ ExpectRun
    \/ \E i \in Inv, name \in Names : Invoke(i, name)
    \/ \E i \in Inv : GreetSpawn(i)
    \/ \E i \in Inv : WorkerRun(i)
    \/ \E i \in Inv : WorkerFail(i)
    \/ \E i \in Inv : GreetReturn(i)

FairSpec == InitFair /\ [][NextGreet]_vars /\ Fairness

\* ------------------------------------------------------------------ claims
GreetPrefix == << "H", "e", "l", "l", "o", ",", " " >>
GreetSuffix ==
    << "!", " ", "Y", "o", "u", "'", "v", "e", " ", "b", "e", "e", "n", " ",
       "g", "r", "e", "e", "t", "e", "d", " ", "f", "r", "o", "m", " ", "R",
       "u", "s", "t", "!" >>
HelloBang == << "H", "e", "l", "l", "o", "!" >>

Returned(i) == inv[i].pc = "returned"

\* C1: when the offloaded task completed, greet(name) returns "Hello, ",
\* then the name unchanged, then "! You've been greeted from Rust!", for
\* every name, the empty one included.
ThmGreetFormatted ==
    \A i \in Inv :
        (Returned(i) /\ inv[i].task = "done")
            => inv[i].res = GreetPrefix \o inv[i].name \o GreetSuffix

\* C1 witness: two completed greets, one of the empty name.
WitGreetFormatted ==
    \E i, j \in Inv :
        /\ Returned(i) /\ inv[i].task = "done" /\ inv[i].name = <<>>
        /\ Returned(j) /\ inv[j].task = "done" /\ Len(inv[j].name) = 2

\* C2: when the worker task failed, greet returns exactly "Hello!" whatever
\* the name; no greet ever panics, so the failure reaches the caller as a
\* value and the process goes on.
ThmGreetFallback ==
    \A i \in Inv :
        /\ inv[i].pc # "panicked"
        /\ (inv[i].task = "failed" /\ inv[i].pc # "awaiting")
              => (Returned(i) /\ inv[i].res = HelloBang)

\* C2 witness: a greet of a non-empty name returned after its task failed,
\* and the application is still running.
WitGreetFallback ==
    \E i \in Inv :
        /\ Returned(i) /\ inv[i].task = "failed" /\ inv[i].name # <<>>
        /\ Running

\* What one invocation returns, from its own name and its own task.
OwnResult(name, task) ==
    IF task = "done" THEN GreetPrefix \o name \o GreetSuffix ELSE HelloBang

\* C3: no interference: a step that changes one invocation changes no other
\* invocation, and the result an invocation returns is determined by its
\* own name and the outcome of its own task, in every interleaving.
ThmNoInterference ==
    [][\A i \in Inv :
          inv'[i] # inv[i] =>
             /\ \A j \in Inv \ {i} : inv'[j] = inv[j]
             /\ inv'[i].name # inv[i].name => inv[i].pc = "idle"
             /\ inv'[i].pc = "returned" =>
                   inv'[i].res = OwnResult(inv[i].name, inv[i].task)]_vars

\* C3 witness: two invocations with different names overlapped (the second
\* was dispatched while the first was in flight) and ended differently.
WitNoInterference ==
    /\ NumInv >= 2
    /\ Returned(1) /\ Returned(2)
    /\ inv[1].name # inv[2].name
    /\ inv[1].name # <<>> /\ inv[2].name # <<>>
    /\ inv[1].task = "failed" /\ inv[2].task = "done"

ThmOffloaded ==
    \A i \in Inv :
        /\ inv[i].fmtThread # "loop"
        /\ inv[i].task = "done" => inv[i].fmtThread = "worker"
        /\ inv[i].pc = "awaiting" => loop # i
        /\ (inv[i].pc = "awaiting" /\ loop = 0 /\ Running) =>
              \A j \in Inv :
                 (inv[j].pc = "idle" /\ (j > 1 => inv[j - 1].pc # "idle"))
                    => ENABLED (\E n \in Names : Invoke(j, n))

\* C5 witness: the first invocation still waits for its queued task while
\* the second, dispatched after it, has already returned.
WitOffloaded ==
    /\ NumInv >= 2
    /\ inv[1].pc = "awaiting" /\ inv[1].task = "queued"
    /\ Returned(2) /\ inv[2].fmtThread = "worker"

\* C6 as stated: on a second launch the repository's code does nothing.
OrigNoOwnAction ==
    [][secondCount' # secondCount => focusCount' = focusCount]_vars

FocusTotal(f) == f["main"] + f["compact"]

\* C6 amended: the only logic of the repository in the plugin registration
\* is the single-instance callback; on a second launch it makes at most
\* one request, a focus request on an existing window, and changes nothing
\* else (plugins, handler, windows, filter, log, greet invocations).
ThmSecondLaunchOnlyFocus ==
    [][secondCount' # secondCount =>
          /\ UNCHANGED << runVars, greetVars >>
          /\ FocusTotal(focusCount') <= FocusTotal(focusCount) + 1
          /\ \A w \in Windows :
                focusCount'[w] # focusCount[w] => w \in windows]_vars

\* C6 witness: a second launch made the callback request focus.
WitSecondLaunchOnlyFocus ==
    secondCount > 0 /\ FocusTotal(focusCount) > 0

\* C7: an error of Builder::run is unwrapped: run never goes on after it
\* and ends in a panic; run returns only after Builder::run returned Ok.
ThmExpectTerminates ==
    /\ runResult = "Err" => (runPc \in {"expect", "panicked"} /\ windows = {})
    /\ runPc = "returned" => runResult = "Ok"
    /\ runPc = "panicked" => runResult = "Err"

\* C7 witness: run panicked on the error.
WitExpectTerminates == runPc = "panicked" /\ runResult = "Err"

\* C8: the filter is the environment's when RUST_LOG is set and parses,
\* and the default "info,tauri=warn,wry=warn" otherwise; the choice always
\* yields a filter and startup goes on.
ThmFilterChoice ==
    LET usable ==
            /\ env.kind = "string"
            /\ \A k \in 1..Len(env.text) : env.text[k] \in ValidDirectives
    IN  /\ runPc = "filter" => filter = NoFilter
        /\ runPc # "filter" =>
              filter = IF usable
                       THEN [from |-> "env", directives |-> env.text]
                       ELSE [from |-> "default",
                             directives |-> <<"info", "tauri=warn", "wry=warn">>]
        /\ subscriberInits > 0 => filter.from \in {"env", "default"}

\* C8 witness: RUST_LOG is set but does not parse, and the subscriber was
\* installed with the default.
WitFilterChoice ==
    /\ env.kind = "string" /\ filter.from = "default"
    /\ subscriberInits = 1

\* C9: on every second launch the callback requests focus on "main" iff
\* that window exists, touches no other window, does the same whatever the
\* arguments and directory, and a failed request changes nothing: the
\* first instance keeps running.
ThmSecondInstanceCallback ==
    [][secondCount' # secondCount =>
          /\ secondCount' = secondCount + 1
          /\ focusCount' =
                [w \in Windows |->
                    IF w = "main" /\ "main" \in windows
                    THEN focusCount[w] + 1 ELSE focusCount[w]]
          /\ focusErrs' # focusErrs => "main" \in windows
          /\ runPc' = "running" /\ runPc = "running"
          /\ windows' = windows]_vars

\* C9 witness: the focus request on "main" failed, another window exists
\* and was not touched, and the application is running.
WitSecondInstanceCallback ==
    /\ focusErrs > 0 /\ Running
    /\ windows = {"main", "compact"}
    /\ focusCount["compact"] = 0 /\ focusCount["main"] = secondCount

LoopStarted ==
    \/ Running
    \/ runResult = "Ok"
    \/ \E i \in Inv : inv[i].pc # "idle"

\* C10: the subscriber is installed once and the start message logged
\* before any plugin is registered; the three plugins, in order, and the
\* greet handler are registered before the event loop starts; greet is
\* the only command and is never dispatched without its handler.
ThmStartupOrder ==
    /\ subscriberInits <= 1
    /\ plugins # <<>> => (subscriberInits = 1 /\ log = <<StartMessage>>)
    /\ Len(log) <= 1
    /\ log # <<>> => subscriberInits = 1
    /\ handlers \subseteq {"greet"}
    /\ handlers # {} => plugins = <<"opener", "sql", "single-instance">>
    /\ LoopStarted =>
          /\ plugins = <<"opener", "sql", "single-instance">>
          /\ handlers = {"greet"}
          /\ subscriberInits = 1

\* C10 witness: a greet was dispatched and returned in the running
\* application.
WitStartupOrder ==
    /\ Running
    /\ \E i \in Inv : Returned(i)
    /\ secondCount > 0

====
